---------------------------- MODULE Spec2Model ----------------------------
(***************************************************************************)
(* Model of server.js: an Express gateway in front of a whatsapp-web.js    *)
(* client.  The state is the two module-level variables isReady and        *)
(* qrCodeData, the pending reconnect timers, and the POST /send-message    *)
(* requests that are suspended at an await.  JavaScript runs handlers to   *)
(* their next await without preemption, so each action is one such run.    *)
(* The variables event and out label a step with the event it delivered    *)
(* and the response it wrote; a step that did neither clears them.         *)
(*                                                                         *)
(* Strings supplied by clients (phone numbers, message texts) are          *)
(* sequences of one-character strings, so that formatPhoneNumber can be    *)
(* computed character by character.  Fixed texts are TLA+ strings.         *)
(***************************************************************************)
EXTENDS Integers, Sequences, FiniteSets, TLC

VARIABLES
    isReady,        \* server.js:40
    qrCodeData,     \* server.js:41
    timers,         \* number of setTimeout callbacks of line 77 not yet run
    initCalls,      \* number of calls of client.initialize() so far
    disconnects,    \* number of "disconnected" events delivered so far
    lastConnEvent,  \* history: the most recent of the events ready,
                    \* auth_failure, disconnected delivered ("none" if none)
    lastQr,         \* history: the payload of the most recent qr event that
                    \* no ready event has followed (Null if there is none)
    req,            \* the POST /send-message requests, by request number
    event,          \* the client event the last step delivered, if any
    out,            \* the HTTP response the last step wrote, if any
    phoneNumber,    \* FormatSpec: the argument of formatPhoneNumber
    formatted,      \* FormatSpec: the outcome of formatPhoneNumber
    renormalized    \* FormatSpec: the outcome of formatPhoneNumber on the
                    \* address in formatted without its "@c.us"

vars == <<isReady, qrCodeData, timers, initCalls, disconnects, lastConnEvent,
          lastQr, req, event, out, phoneNumber, formatted, renormalized>>

\* the variables of FormatSpec
formatVars == <<phoneNumber, formatted, renormalized>>

\* the variables of the server that are not labels of the last step
state == <<isReady, qrCodeData, timers, initCalls, disconnects, lastConnEvent,
           lastQr, req>>

-----------------------------------------------------------------------------
(* Bounds *)

\* number of POST /send-message requests in a behaviour
MaxReqs == 2
\* number of "disconnected" events in a behaviour
MaxDisconnects == 2
\* FormatSpec: longest varied prefix of an input of formatPhoneNumber
MaxPre == 3
\* FormatSpec: longest run of the digit 8 that follows the prefix
MaxPad == 12

-----------------------------------------------------------------------------
(* JavaScript values *)

Null == "null"

Digits == {"0", "1", "2", "3", "4", "5", "6", "7", "8", "9"}

Undefined == [t |-> "undefined", v |-> <<>>]
Str(s) == [t |-> "string", v |-> s]
\* a non-zero JSON number; it has no replace method
Num == [t |-> "number", v |-> <<>>]

\* a test for undefined alone, which lets the empty string through
TruthyIfDefined(x) == x.t # "undefined"

\* JavaScript truthiness of the values above, as used by ! at line 164
Truthy(x) == x.t = "number" \/ (x.t = "string" /\ x.v # <<>>)

\* outcome of a call that may throw
Return(v) == [threw |-> FALSE, value |-> v, message |-> ""]
Throw(m) == [threw |-> TRUE, value |-> <<>>, message |-> m]

-----------------------------------------------------------------------------
(* formatPhoneNumber, server.js:86-119 *)

\* phoneNumber.replace(/\D/g, "")
RECURSIVE StripNonDigits(_)
StripNonDigits(s) ==
    IF s = <<>> THEN <<>>
    ELSE (IF Head(s) \in Digits THEN <<Head(s)>> ELSE <<>>)
             \o StripNonDigits(Tail(s))

\* String.prototype.startsWith
startsWith(s, p) == Len(s) >= Len(p) /\ SubSeq(s, 1, Len(p)) = p

\* String.prototype.substring(i)
substring(s, i) == SubSeq(s, i + 1, Len(s))

AtCUs == <<"@", "c", ".", "u", "s">>

CountryCode == <<"2", "5", "0">>

\* formatPhoneNumber without the length check of line 93
formatPhoneNumberAnyLength(number) ==
    LET cleaned == StripNonDigits(number) IN
    IF startsWith(cleaned, CountryCode) THEN
        Return(cleaned \o AtCUs)
    ELSE IF startsWith(cleaned, <<"0">>) THEN
        IF Len(cleaned) # 10
        THEN Throw("Invalid Rwandan phone number. Local format should be 10 digits starting with 0")
        ELSE Return((CountryCode \o substring(cleaned, 1)) \o AtCUs)
    ELSE IF Len(cleaned) = 9 THEN
        Return((CountryCode \o cleaned) \o AtCUs)
    ELSE
        Throw("Invalid Rwandan phone number format. Use: 250788123456, 0788123456, or 788123456")

\* formatPhoneNumber without the country code of line 112
formatPhoneNumberNoCode(number) ==
    LET cleaned == StripNonDigits(number) IN
    IF startsWith(cleaned, CountryCode) THEN
        IF Len(cleaned) # 12
        THEN Throw("Invalid Rwandan phone number. Should be 12 digits with country code (250)")
        ELSE Return(cleaned \o AtCUs)
    ELSE IF startsWith(cleaned, <<"0">>) THEN
        IF Len(cleaned) # 10
        THEN Throw("Invalid Rwandan phone number. Local format should be 10 digits starting with 0")
        ELSE Return((CountryCode \o substring(cleaned, 1)) \o AtCUs)
    ELSE IF Len(cleaned) = 9 THEN
        Return(cleaned \o AtCUs)
    ELSE
        Throw("Invalid Rwandan phone number format. Use: 250788123456, 0788123456, or 788123456")

\* formatPhoneNumber without the substring(1) of line 107
formatPhoneNumberKeepZero(number) ==
    LET cleaned == StripNonDigits(number) IN
    IF startsWith(cleaned, CountryCode) THEN
        IF Len(cleaned) # 12
        THEN Throw("Invalid Rwandan phone number. Should be 12 digits with country code (250)")
        ELSE Return(cleaned \o AtCUs)
    ELSE IF startsWith(cleaned, <<"0">>) THEN
        IF Len(cleaned) # 10
        THEN Throw("Invalid Rwandan phone number. Local format should be 10 digits starting with 0")
        ELSE Return((CountryCode \o cleaned) \o AtCUs)
    ELSE IF Len(cleaned) = 9 THEN
        Return((CountryCode \o cleaned) \o AtCUs)
    ELSE
        Throw("Invalid Rwandan phone number format. Use: 250788123456, 0788123456, or 788123456")

formatPhoneNumber(number) ==
    LET cleaned == StripNonDigits(number) IN
    IF startsWith(cleaned, CountryCode) THEN
        IF Len(cleaned) # 12
        THEN Throw("Invalid Rwandan phone number. Should be 12 digits with country code (250)")
        ELSE Return(cleaned \o AtCUs)
    ELSE IF startsWith(cleaned, <<"0">>) THEN
        IF Len(cleaned) # 10
        THEN Throw("Invalid Rwandan phone number. Local format should be 10 digits starting with 0")
        ELSE Return((CountryCode \o substring(cleaned, 1)) \o AtCUs)
    ELSE IF Len(cleaned) = 9 THEN
        Return((CountryCode \o cleaned) \o AtCUs)
    ELSE
        Throw("Invalid Rwandan phone number format. Use: 250788123456, 0788123456, or 788123456")

-----------------------------------------------------------------------------
(* FormatSpec: formatPhoneNumber applied to a bounded set of strings *)

PreAlphabet == {"0", "2", "5", "7", "+"}

RECURSIVE SeqsUpTo(_, _)
SeqsUpTo(S, n) ==
    IF n = 0 THEN {<<>>}
    ELSE LET shorter == SeqsUpTo(S, n - 1)
         IN  shorter \cup {Append(s, c) : s \in shorter, c \in S}

Pad(n) == [i \in 1..n |-> "8"]

Suffixes == {<<>>, <<" ">>}

FormatInputs ==
    {(pre \o Pad(n)) \o suf :
        pre \in SeqsUpTo(PreAlphabet, MaxPre), n \in 0..MaxPad, suf \in Suffixes}

NotCalled == [threw |-> FALSE, value |-> <<>>, message |-> "not called"]


-----------------------------------------------------------------------------
(* The requests of POST /send-message *)

Reqs == 1..MaxReqs

QrPayloads == {"qr-1", "qr-2"}

LocalNumber == <<"0", "7", "8", "8", "-", "1", "2", "3", "4", "5", "6">>
IntlNumber ==
    <<"+", "2", "5", "0", "7", "8", "8", "1", "2", "3", "4", "5", "6">>
ShortNumber == <<"1", "2", "3">>
Text == <<"h", "i">>

\* req.body after express.json: the parsed objects the handler can be given
Bodies ==
    { [phoneNumber |-> Undefined,        message |-> Undefined],
      [phoneNumber |-> Undefined,        message |-> Str(Text)],
      [phoneNumber |-> Str(<<>>),        message |-> Str(Text)],
      [phoneNumber |-> Str(LocalNumber), message |-> Undefined],
      [phoneNumber |-> Str(LocalNumber), message |-> Str(<<>>)],
      [phoneNumber |-> Str(ShortNumber), message |-> Str(Text)],
      [phoneNumber |-> Num,              message |-> Str(Text)],
      [phoneNumber |-> Str(LocalNumber), message |-> Str(Text)],
      [phoneNumber |-> Str(IntlNumber),  message |-> Str(Text)] }

\* a request whose body express.json could not parse never has a req.body
NoBody == [phoneNumber |-> Undefined, message |-> Undefined]

\* error.message of the rejections of the client's promises
ErrorDetails == {"Evaluation failed", "Session closed"}

MessageIds == {"3EB0A1"}

ErrorBody(e) == [success |-> FALSE, error |-> e]

\* the success body of line 187; the timestamp is the clock's and is left out
SuccessBody(id, to, message) ==
    [success |-> TRUE, messageId |-> id, to |-> to, message |-> message]

Response(status, body) == [status |-> status, body |-> body]

NewRequest ==
    [pc |-> "idle",              \* idle, awaitIsRegisteredUser, awaitSendMessage, done
     malformed |-> FALSE,        \* express.json rejected the body
     body |-> NoBody,            \* req.body
     readyAtStart |-> FALSE,     \* history: isReady when the request was taken up
     formattedNumber |-> <<>>,   \* const formattedNumber, line 172
     calls |-> <<>>,             \* history: the calls made for the request
     caught |-> "",              \* history: error.message in the catch block
     lostReady |-> FALSE,        \* history: an auth_failure or disconnected
                                 \* event came while the request was in flight
     responses |-> <<>>,         \* the responses written to res by this run
     answered |-> 0]             \* the number of responses written to res

\* a call made for a request: its argument, how it ended (pending, returned,
\* threw, true, false, resolved, rejected) and the message of its error
Call(fn, arg, result, error) ==
    [fn |-> fn, arg |-> arg, result |-> result, error |-> error]

\* res.status(status).json(body), after which the handler returns
Answer(rq, status, body) ==
    [rq EXCEPT !.pc = "done",
               !.responses = Append(@, Response(status, body)),
               !.answered = @ + 1]

\* a catch block that hides the detail of the error
CatchGeneric(rq, message) ==
    Answer([rq EXCEPT !.caught = message], 500,
           ErrorBody("Internal server error"))

\* the catch block, server.js:194-200
Catch(rq, message) ==
    Answer([rq EXCEPT !.caught = message], 500,
           ErrorBody("Failed to send message: " \o message))

\* the last call of the request ends
Settle(rq, result, error) ==
    [rq EXCEPT !.calls[Len(rq.calls)].result = result,
               !.calls[Len(rq.calls)].error = error]

\* formatPhoneNumber(phoneNumber) at line 172, for any value of the field
CallFormatPhoneNumber(value) ==
    IF value.t = "string" THEN formatPhoneNumber(value.v)
    ELSE Throw("phoneNumber.replace is not a function")

\* server.js:154-175, up to the first await
HandlerStart(rq, ready) ==
    IF ~ready THEN
        Answer(rq, 503,
               ErrorBody("WhatsApp client is not ready. Please check /status endpoint."))
    ELSE IF ~Truthy(rq.body.phoneNumber) \/ ~Truthy(rq.body.message) THEN
        Answer(rq, 400, ErrorBody("Phone number and message are required"))
    ELSE
        LET f == CallFormatPhoneNumber(rq.body.phoneNumber)
            called == [rq EXCEPT !.calls = Append(@,
                          Call("formatPhoneNumber", rq.body.phoneNumber.v,
                               IF f.threw THEN "threw" ELSE "returned",
                               f.message))]
        IN  IF f.threw THEN Catch(called, f.message)
            ELSE [called EXCEPT
                    !.formattedNumber = f.value,
                    !.calls = Append(@, Call("isRegisteredUser", f.value, "pending", "")),
                    !.pc = "awaitIsRegisteredUser"]

\* a handler that sends whatever isRegisteredUser returns
AfterIsRegisteredUserUnchecked(rq, outcome) ==
    IF outcome.rejected
    THEN Catch(Settle(rq, "rejected", outcome.message), outcome.message)
    ELSE [Settle(rq, IF outcome.value THEN "true" ELSE "false", "") EXCEPT
            !.calls = Append(@, Call("sendMessage", rq.formattedNumber, "pending", "")),
            !.pc = "awaitSendMessage"]

\* a handler without the return of line 178
AfterIsRegisteredUserNoReturn(rq, outcome) ==
    IF outcome.rejected
    THEN Catch(Settle(rq, "rejected", outcome.message), outcome.message)
    ELSE [(IF outcome.value THEN Settle(rq, "true", "")
           ELSE Answer(Settle(rq, "false", ""), 400,
                       ErrorBody("Phone number is not registered on WhatsApp")))
          EXCEPT
            !.calls = Append(@, Call("sendMessage", rq.formattedNumber, "pending", "")),
            !.pc = "awaitSendMessage"]

\* server.js:175-185, from the first await to the second
AfterIsRegisteredUser(rq, outcome) ==
    IF outcome.rejected THEN Catch(Settle(rq, "rejected", outcome.message), outcome.message)
    ELSE IF ~outcome.value THEN
        Answer(Settle(rq, "false", ""), 400,
               ErrorBody("Phone number is not registered on WhatsApp"))
    ELSE [Settle(rq, "true", "") EXCEPT
            !.calls = Append(@, Call("sendMessage", rq.formattedNumber, "pending", "")),
            !.pc = "awaitSendMessage"]

\* a handler that echoes the normalized address in the field to
AfterSendMessageEchoAddress(rq, outcome) ==
    IF outcome.rejected
    THEN Catch(Settle(rq, "rejected", outcome.message), outcome.message)
    ELSE Answer(Settle(rq, "resolved", ""), 200,
                SuccessBody(outcome.value, Str(rq.formattedNumber),
                            rq.body.message))

\* server.js:185-193, after the second await
AfterSendMessage(rq, outcome) ==
    IF outcome.rejected THEN Catch(Settle(rq, "rejected", outcome.message), outcome.message)
    ELSE Answer(Settle(rq, "resolved", ""), 200,
                SuccessBody(outcome.value, rq.body.phoneNumber, rq.body.message))

\* the error-handling middleware, server.js:213-219
AfterParseError(rq) ==
    Answer(rq, 500, ErrorBody("Internal server error"))

IsRegisteredOutcomes ==
    {[rejected |-> FALSE, value |-> b, message |-> ""] : b \in BOOLEAN}
    \cup {[rejected |-> TRUE, value |-> FALSE, message |-> m] : m \in ErrorDetails}

SendOutcomes ==
    {[rejected |-> FALSE, value |-> id, message |-> ""] : id \in MessageIds}
    \cup {[rejected |-> TRUE, value |-> "", message |-> m] : m \in ErrorDetails}

-----------------------------------------------------------------------------
(* The labels of a step *)

NoEvent == [name |-> "none", arg |-> ""]
Event(name, arg) == [name |-> name, arg |-> arg]

NoOutput ==
    [route |-> "none", r |-> 0, request |-> NewRequest, status |-> 0,
     body |-> [message |-> ""]]

\* the response of a handler that serves no POST /send-message request
Reply(route, status, body) ==
    [route |-> route, r |-> 0, request |-> NewRequest, status |-> status,
     body |-> body]

\* the response of request r, with the request as it was when answered
Output(r, rq) ==
    [route |-> "/send-message", r |-> r, request |-> rq,
     status |-> rq.responses[Len(rq.responses)].status,
     body |-> rq.responses[Len(rq.responses)].body]

\* what is left of a request when its handler has returned
Finished(rq) == [NewRequest EXCEPT !.pc = "done", !.answered = rq.answered]

-----------------------------------------------------------------------------
(* Initial state: server.js:40-41, and client.initialize() at line 83 *)

ServerInit ==
    /\ isReady = FALSE
    /\ qrCodeData = Null
    /\ timers = 0
    /\ initCalls = 1
    /\ disconnects = 0
    /\ lastConnEvent = "none"
    /\ lastQr = Null
    /\ req = [r \in Reqs |-> NewRequest]
    /\ event = NoEvent
    /\ out = NoOutput

Init ==
    /\ ServerInit
    /\ phoneNumber = <<>>
    /\ formatted = NotCalled
    /\ renormalized = NotCalled

-----------------------------------------------------------------------------
(* The client's events, server.js:43-80 *)

\* a step that delivers the event and writes no HTTP response
Announces(name, arg) ==
    /\ event' = Event(name, arg)
    /\ out' = NoOutput
    /\ UNCHANGED formatVars

\* a step that delivers an event that is no auth_failure or disconnected
Delivers(name, arg) ==
    /\ Announces(name, arg)
    /\ UNCHANGED req

\* the requests in flight
InFlight(rq) == rq.pc \in {"awaitIsRegisteredUser", "awaitSendMessage"}

\* a step that delivers an auth_failure or disconnected event: the requests
\* in flight have seen the connection lost
DeliversLoss(name) ==
    /\ Announces(name, "")
    /\ req' = [r \in Reqs |->
                 IF InFlight(req[r]) THEN [req[r] EXCEPT !.lostReady = TRUE]
                 ELSE req[r]]

OnQr(qr) ==
    /\ qrCodeData' = qr
    /\ lastQr' = qr
    /\ Delivers("qr", qr)
    /\ UNCHANGED <<isReady, timers, initCalls, disconnects, lastConnEvent>>

OnLoadingScreen ==
    /\ Delivers("loading_screen", "")
    /\ UNCHANGED <<isReady, qrCodeData, timers, initCalls, disconnects,
                   lastConnEvent, lastQr>>

\* a ready handler that keeps the QR payload
OnReadyKeepsQr ==
    /\ isReady' = TRUE
    /\ lastConnEvent' = "ready"
    /\ lastQr' = Null
    /\ Delivers("ready", "")
    /\ UNCHANGED <<qrCodeData, timers, initCalls, disconnects>>

OnReady ==
    /\ isReady' = TRUE
    /\ qrCodeData' = Null
    /\ lastConnEvent' = "ready"
    /\ lastQr' = Null
    /\ Delivers("ready", "")
    /\ UNCHANGED <<timers, initCalls, disconnects>>

OnAuthenticated ==
    /\ Delivers("authenticated", "")
    /\ UNCHANGED <<isReady, qrCodeData, timers, initCalls, disconnects,
                   lastConnEvent, lastQr>>

\* an auth_failure handler that also drops the QR payload
OnAuthFailureClearsQr ==
    /\ isReady' = FALSE
    /\ qrCodeData' = Null
    /\ lastConnEvent' = "auth_failure"
    /\ DeliversLoss("auth_failure")
    /\ UNCHANGED <<timers, initCalls, disconnects, lastQr>>

\* an auth_failure handler that schedules a reconnection as well
OnAuthFailureReconnects ==
    /\ isReady' = FALSE
    /\ timers' = timers + 1
    /\ lastConnEvent' = "auth_failure"
    /\ DeliversLoss("auth_failure")
    /\ UNCHANGED <<qrCodeData, initCalls, disconnects, lastQr>>

OnAuthFailure ==
    /\ isReady' = FALSE
    /\ lastConnEvent' = "auth_failure"
    /\ DeliversLoss("auth_failure")
    /\ UNCHANGED <<qrCodeData, timers, initCalls, disconnects, lastQr>>

OnChangeState ==
    /\ Delivers("change_state", "")
    /\ UNCHANGED <<isReady, qrCodeData, timers, initCalls, disconnects,
                   lastConnEvent, lastQr>>

\* a disconnected handler that replaces the pending timer by a new one
OnDisconnectedCoalesces ==
    /\ disconnects < MaxDisconnects
    /\ isReady' = FALSE
    /\ timers' = 1
    /\ disconnects' = disconnects + 1
    /\ lastConnEvent' = "disconnected"
    /\ DeliversLoss("disconnected")
    /\ UNCHANGED <<qrCodeData, initCalls, lastQr>>

OnDisconnected ==
    /\ disconnects < MaxDisconnects
    /\ isReady' = FALSE
    /\ timers' = timers + 1
    /\ disconnects' = disconnects + 1
    /\ lastConnEvent' = "disconnected"
    /\ DeliversLoss("disconnected")
    /\ UNCHANGED <<qrCodeData, initCalls, lastQr>>

\* a timer callback that takes the client to be ready again
ReconnectTimerSetsReady ==
    /\ timers > 0
    /\ timers' = timers - 1
    /\ initCalls' = initCalls + 1
    /\ isReady' = TRUE
    /\ event' = NoEvent
    /\ out' = NoOutput
    /\ UNCHANGED <<qrCodeData, disconnects, lastConnEvent, lastQr, req, formatVars>>

\* the callback of setTimeout, server.js:77-79
ReconnectTimer ==
    /\ timers > 0
    /\ timers' = timers - 1
    /\ initCalls' = initCalls + 1
    /\ event' = NoEvent
    /\ out' = NoOutput
    /\ UNCHANGED <<isReady, qrCodeData, disconnects, lastConnEvent, lastQr, req,
                   formatVars>>

-----------------------------------------------------------------------------
(* The HTTP handlers, server.js:124-227 *)

\* a step of a handler that writes the response and touches no request
Replies(route, status, body) ==
    /\ out' = Reply(route, status, body)
    /\ event' = NoEvent
    /\ UNCHANGED <<isReady, qrCodeData, timers, initCalls, disconnects,
                   lastConnEvent, lastQr, req, formatVars>>

\* a run of the handler of request r that leaves the request as rq
Runs(r, rq) ==
    /\ req' = [req EXCEPT ![r] = IF rq.pc = "done" THEN Finished(rq) ELSE rq]
    /\ out' = IF rq.pc = "done" THEN Output(r, rq) ELSE NoOutput
    /\ event' = NoEvent
    /\ UNCHANGED <<isReady, qrCodeData, timers, initCalls, disconnects,
                   lastConnEvent, lastQr, formatVars>>

\* requests are numbered in the order in which they are taken up
NextRequest(r) ==
    /\ req[r].pc = "idle"
    /\ \A q \in Reqs : q < r => req[q].pc # "idle"

GetStatus ==
    Replies("/status", 200,
            [status |-> IF isReady THEN "ready" ELSE "not_ready",
             qrCode |-> qrCodeData,
             message |-> IF isReady
                         THEN "Bot is ready to send messages"
                         ELSE "Bot is not ready. Please scan QR code if available."])

\* a /qr handler that hands a QR payload out once
GetQrConsumes ==
    /\ out' = Reply("/qr", 200,
                    IF qrCodeData # Null /\ qrCodeData # ""
                    THEN [qrCode |-> qrCodeData,
                          message |-> "Please scan this QR code with your WhatsApp mobile app"]
                    ELSE IF isReady
                    THEN [message |-> "Bot is already authenticated and ready"]
                    ELSE [message |-> "QR code not available yet. Please wait..."])
    /\ qrCodeData' = Null
    /\ event' = NoEvent
    /\ UNCHANGED <<isReady, timers, initCalls, disconnects, lastConnEvent,
                   lastQr, req, formatVars>>

\* a /qr handler that looks at isReady first
GetQrReadyFirst ==
    Replies("/qr", 200,
            IF isReady
            THEN [message |-> "Bot is already authenticated and ready"]
            ELSE IF qrCodeData # Null /\ qrCodeData # ""
            THEN [qrCode |-> qrCodeData,
                  message |-> "Please scan this QR code with your WhatsApp mobile app"]
            ELSE [message |-> "QR code not available yet. Please wait..."])

GetQr ==
    Replies("/qr", 200,
            IF qrCodeData # Null /\ qrCodeData # ""
            THEN [qrCode |-> qrCodeData,
                  message |-> "Please scan this QR code with your WhatsApp mobile app"]
            ELSE IF isReady
            THEN [message |-> "Bot is already authenticated and ready"]
            ELSE [message |-> "QR code not available yet. Please wait..."])

\* a /health handler that reports the readiness of the client
GetHealthOfClient ==
    Replies("/health", IF isReady THEN 200 ELSE 503,
            [status |-> IF isReady THEN "healthy" ELSE "unhealthy",
             whatsappReady |-> isReady])

GetHealth ==
    Replies("/health", 200, [status |-> "healthy", whatsappReady |-> isReady])

NotFound ==
    Replies("unmatched", 404, ErrorBody("Endpoint not found"))

\* POST /send-message with a body express.json parsed: lines 153-175
PostSendMessage(r, body) ==
    /\ NextRequest(r)
    /\ Runs(r, HandlerStart([req[r] EXCEPT !.body = body,
                                           !.readyAtStart = isReady],
                            isReady))

\* POST /send-message with a body express.json (line 9) cannot parse: the
\* parser passes its error to next(), Express skips the route and runs the
\* error-handling middleware of lines 213-219
ErrorMiddleware(r) ==
    /\ NextRequest(r)
    /\ Runs(r, AfterParseError([req[r] EXCEPT !.malformed = TRUE,
                                              !.readyAtStart = isReady]))

\* the promise of client.isRegisteredUser settles and the handler resumes
ResumeAfterIsRegisteredUser(r, outcome) ==
    /\ req[r].pc = "awaitIsRegisteredUser"
    /\ Runs(r, AfterIsRegisteredUser(req[r], outcome))

\* the promise of client.sendMessage settles and the handler resumes
ResumeAfterSendMessage(r, outcome) ==
    /\ req[r].pc = "awaitSendMessage"
    /\ Runs(r, AfterSendMessage(req[r], outcome))

-----------------------------------------------------------------------------

Next ==
    \/ \E qr \in QrPayloads : OnQr(qr)
    \/ OnLoadingScreen
    \/ OnReady
    \/ OnAuthenticated
    \/ OnAuthFailure
    \/ OnChangeState
    \/ OnDisconnected
    \/ ReconnectTimer
    \/ GetStatus
    \/ GetQr
    \/ GetHealth
    \/ NotFound
    \/ \E r \in Reqs, body \in Bodies : PostSendMessage(r, body)
    \/ \E r \in Reqs : ErrorMiddleware(r)
    \/ \E r \in Reqs, outcome \in IsRegisteredOutcomes :
          ResumeAfterIsRegisteredUser(r, outcome)
    \/ \E r \in Reqs, outcome \in SendOutcomes :
          ResumeAfterSendMessage(r, outcome)

Spec == Init /\ [][Next]_vars

\* the timers of setTimeout expire
TimerSpec == Spec /\ WF_vars(ReconnectTimer)

\* the promises of the client settle
SettleSpec ==
    /\ Spec
    /\ \A r \in Reqs :
          /\ WF_vars(\E outcome \in IsRegisteredOutcomes :
                        ResumeAfterIsRegisteredUser(r, outcome))
          /\ WF_vars(\E outcome \in SendOutcomes :
                        ResumeAfterSendMessage(r, outcome))

-----------------------------------------------------------------------------
(* FormatSpec: formatPhoneNumber on every string of FormatInputs *)

FormatInit ==
    /\ ServerInit
    /\ phoneNumber \in FormatInputs
    /\ formatted = NotCalled
    /\ renormalized = NotCalled

Format ==
    /\ formatted = NotCalled
    /\ formatted' = formatPhoneNumber(phoneNumber)
    /\ UNCHANGED <<state, event, out, phoneNumber, renormalized>>

\* the address without its last five characters, "@c.us"
StripSuffix(address) == SubSeq(address, 1, Len(address) - Len(AtCUs))

\* the address that formatPhoneNumber returned is normalized again
Renormalize ==
    /\ formatted # NotCalled
    /\ ~formatted.threw
    /\ renormalized = NotCalled
    /\ renormalized' = formatPhoneNumber(StripSuffix(formatted.value))
    /\ UNCHANGED <<state, event, out, phoneNumber, formatted>>

FormatNext == Format \/ Renormalize

FormatSpec == FormatInit /\ [][FormatNext]_vars

-----------------------------------------------------------------------------
(* Vocabulary of the properties *)

IsDigit(c) == c \in Digits

\* the input with every non-digit character removed
DigitsOf(s) == SelectSeq(s, IsDigit)

HasPrefix(s, p) == \E n \in 0..Len(s) : SubSeq(s, 1, n) = p

InvalidFormatMessages ==
    {"Invalid Rwandan phone number. Should be 12 digits with country code (250)",
     "Invalid Rwandan phone number. Local format should be 10 digits starting with 0",
     "Invalid Rwandan phone number format. Use: 250788123456, 0788123456, or 788123456"}

\* the normalizer failed with InvalidFormat
InvalidFormat(f) == f.threw /\ f.message \in InvalidFormatMessages

\* the normalizer returned the address
Address(f, a) == ~f.threw /\ f.value = a

Normalized == formatted # NotCalled

\* the calls of function fn among the calls of a request
CallsOf(rq, fn) == {i \in 1..Len(rq.calls) : rq.calls[i].fn = fn}

\* the step just taken answered a POST /send-message request
Answered == out.route = "/send-message"

Missing(x) == x = Undefined \/ x = Str(<<>>)

-----------------------------------------------------------------------------
(* Properties of formatPhoneNumber, under FormatSpec *)

\* C2: with d the digits of the input: if d starts with 250 the normalizer
\* returns d@c.us exactly when d has 12 digits and fails with InvalidFormat
\* otherwise; else if d starts with 0 it returns 250, d without its leading
\* 0, @c.us exactly when d has 10 digits and fails with InvalidFormat
\* otherwise; any other d that has not exactly 9 digits fails with
\* InvalidFormat; and every input yields an address or an InvalidFormat.
C2_NormalizerByPrefix ==
    Normalized =>
        LET d == DigitsOf(phoneNumber) IN
        /\ InvalidFormat(formatted) \/ ~formatted.threw
        /\ IF HasPrefix(d, <<"2", "5", "0">>) THEN
               IF Len(d) = 12 THEN Address(formatted, d \o AtCUs)
               ELSE InvalidFormat(formatted)
           ELSE IF HasPrefix(d, <<"0">>) THEN
               IF Len(d) = 10
               THEN Address(formatted, (<<"2", "5", "0">> \o Tail(d)) \o AtCUs)
               ELSE InvalidFormat(formatted)
           ELSE Len(d) # 9 => InvalidFormat(formatted)

\* a local number written with a separator was normalized
C2_Witness ==
    /\ Normalized
    /\ ~formatted.threw
    /\ HasPrefix(DigitsOf(phoneNumber), <<"0">>)
    /\ Len(phoneNumber) > Len(DigitsOf(phoneNumber))

\* C3 as stated: every input with exactly 9 digits is normalized to 250, the
\* 9 digits, @c.us.
C3_EveryNineDigits ==
    (Normalized /\ Len(DigitsOf(phoneNumber)) = 9) =>
        Address(formatted, (<<"2", "5", "0">> \o DigitsOf(phoneNumber)) \o AtCUs)

\* C3 amended: every input with exactly 9 digits that start neither with 250
\* nor with 0 is normalized to 250, the 9 digits, @c.us.
C3_NineDigitsNoPrefix ==
    LET d == DigitsOf(phoneNumber) IN
    (/\ Normalized
     /\ Len(d) = 9
     /\ ~HasPrefix(d, <<"2", "5", "0">>)
     /\ ~HasPrefix(d, <<"0">>)) =>
        Address(formatted, (<<"2", "5", "0">> \o d) \o AtCUs)

\* nine digits starting with 7, behind a plus sign, were normalized
C3_Witness ==
    /\ Normalized
    /\ ~formatted.threw
    /\ Len(DigitsOf(phoneNumber)) = 9
    /\ HasPrefix(phoneNumber, <<"+", "7">>)

-----------------------------------------------------------------------------
(* Properties of POST /send-message, under Spec *)

\* the last call made for the request
LastCall(rq) == rq.calls[Len(rq.calls)]

\* the last call made for the request was a call of the client that failed
ClientCallFailed(rq) ==
    /\ rq.calls # <<>>
    /\ LastCall(rq).fn \in {"isRegisteredUser", "sendMessage"}
    /\ LastCall(rq).result = "rejected"

\* the request had both fields and formatPhoneNumber rejected its number
NormalizationFailed(rq) ==
    /\ rq.readyAtStart
    /\ ~rq.malformed
    /\ ~Missing(rq.body.phoneNumber)
    /\ ~Missing(rq.body.message)
    /\ rq.body.phoneNumber.t = "string"
    /\ \E i \in CallsOf(rq, "formatPhoneNumber") : rq.calls[i].result = "threw"

\* C1 as stated: a request taken up while ready, with both fields, whose
\* number formatPhoneNumber rejects is answered 400 with an error carrying
\* the normalizer's message, and neither isRegisteredUser nor sendMessage is
\* called for it.
C1_NormalizationFailureIs400 ==
    (Answered /\ NormalizationFailed(out.request)) =>
        LET m == out.request.calls[1].error IN
        /\ out.status = 400
        /\ out.body \in {ErrorBody(m), ErrorBody("Failed to send message: " \o m)}
        /\ CallsOf(out.request, "isRegisteredUser") = {}
        /\ CallsOf(out.request, "sendMessage") = {}

\* C4 as stated: a request taken up while isReady is false is answered 503
\* whatever its body, and no call (normalization, isRegisteredUser,
\* sendMessage) is made for it.
C4_NotReadyIs503 ==
    (Answered /\ ~out.request.readyAtStart) =>
        (out.status = 503 /\ out.request.calls = <<>>)

\* C5: a request taken up while ready whose phoneNumber or message is missing
\* or empty is answered 400, and no call (normalization, isRegisteredUser,
\* sendMessage) has been made for it.
C5_MissingFieldIs400 ==
    (/\ Answered
     /\ out.request.readyAtStart
     /\ ~out.request.malformed
     /\ Missing(out.request.body.phoneNumber) \/ Missing(out.request.body.message)) =>
        /\ out.status = 400
        /\ out.body = ErrorBody("Phone number and message are required")
        /\ out.request.calls = <<>>
        /\ out.request.answered = 1

\* a request with a number and no message was answered while ready
C5_Witness ==
    /\ Answered
    /\ out.request.readyAtStart
    /\ out.request.body.phoneNumber = Str(LocalNumber)
    /\ out.request.body.message = Undefined
    /\ out.status = 400

\* every sendMessage of the request follows an isRegisteredUser of the same
\* address that returned true
SendFollowsRegistered(rq) ==
    \A i \in CallsOf(rq, "sendMessage") :
        \E j \in CallsOf(rq, "isRegisteredUser") :
            /\ j < i
            /\ rq.calls[j].result = "true"
            /\ rq.calls[j].arg = rq.calls[i].arg

\* C6: when isRegisteredUser returns false the request is answered 400 and
\* sendMessage is never called for it; sendMessage is called for a request
\* only after isRegisteredUser returned true for the same address in the
\* same request.
C6_SendOnlyIfRegistered ==
    /\ \A r \in Reqs :
          /\ SendFollowsRegistered(req[r])
          /\ \A i \in CallsOf(req[r], "isRegisteredUser") :
                req[r].calls[i].result \in {"pending", "true"}
    /\ Answered =>
          /\ SendFollowsRegistered(out.request)
          /\ (\E i \in CallsOf(out.request, "isRegisteredUser") :
                 out.request.calls[i].result = "false") =>
                /\ out.status = 400
                /\ out.body = ErrorBody("Phone number is not registered on WhatsApp")
                /\ CallsOf(out.request, "sendMessage") = {}

\* a request was answered after isRegisteredUser returned false
C6_Witness ==
    /\ Answered
    /\ out.status = 400
    /\ \E i \in CallsOf(out.request, "isRegisteredUser") :
          out.request.calls[i].result = "false"

\* C7: a request is answered 200 with success true only if sendMessage was
\* called exactly once for it and resolved; sendMessage is never called more
\* than once for a request; and the field to of the success body is the
\* phoneNumber as supplied, not the normalized address.
C7_SuccessAfterOneSend ==
    /\ \A r \in Reqs : Cardinality(CallsOf(req[r], "sendMessage")) <= 1
    /\ Answered => Cardinality(CallsOf(out.request, "sendMessage")) <= 1
    /\ (Answered /\ out.status = 200) =>
          /\ out.body.success
          /\ Cardinality(CallsOf(out.request, "sendMessage")) = 1
          /\ \A i \in CallsOf(out.request, "sendMessage") :
                out.request.calls[i].result = "resolved"
          /\ out.body.to = out.request.body.phoneNumber
          /\ out.body.to # Str(out.request.formattedNumber)

\* a request whose number was written +250... was answered 200
C7_Witness ==
    /\ Answered
    /\ out.status = 200
    /\ out.request.body.phoneNumber = Str(IntlNumber)

\* C8: if isRegisteredUser or sendMessage fails, the request is answered 500
\* with success false and the error "Failed to send message: " followed by
\* the detail, in the step in which the call fails, once; and that step
\* changes neither isReady nor qrCodeData.
C8_ClientFailureIs500 ==
    /\ [](/\ \A r \in Reqs : ~ClientCallFailed(req[r])
          /\ (Answered /\ ClientCallFailed(out.request)) =>
                /\ out.status = 500
                /\ LastCall(out.request).error \in ErrorDetails
                /\ out.body = ErrorBody("Failed to send message: "
                                           \o LastCall(out.request).error)
                /\ out.request.answered = 1)
    /\ [][(out'.route = "/send-message" /\ ClientCallFailed(out'.request)) =>
             UNCHANGED <<isReady, qrCodeData>>]_vars

\* sendMessage failed with "Session closed" and the request was answered
C8_Witness ==
    /\ Answered
    /\ ClientCallFailed(out.request)
    /\ LastCall(out.request).fn = "sendMessage"
    /\ LastCall(out.request).error = "Session closed"

-----------------------------------------------------------------------------
(* Properties of the connection state, under Spec *)

\* C9: a qr event sets qrCodeData to its payload and leaves isReady; a ready
\* event sets isReady and clears qrCodeData; authenticated, loading_screen
\* and change_state leave both; auth_failure and disconnected clear isReady
\* and leave qrCodeData.
C9_EventEffects ==
    [][/\ event'.name = "qr" =>
             (qrCodeData' = event'.arg /\ isReady' = isReady)
       /\ event'.name = "ready" =>
             (isReady' = TRUE /\ qrCodeData' = Null)
       /\ event'.name \in {"authenticated", "loading_screen", "change_state"} =>
             (isReady' = isReady /\ qrCodeData' = qrCodeData)
       /\ event'.name \in {"auth_failure", "disconnected"} =>
             (isReady' = FALSE /\ qrCodeData' = qrCodeData)]_vars

\* an auth_failure arrived while a QR payload was held, and it is still held
C9_Witness ==
    /\ event.name = "auth_failure"
    /\ qrCodeData \in QrPayloads
    /\ ~isReady

\* C10: isReady is true exactly when a ready event has been delivered and no
\* auth_failure or disconnected event after the last one; it is false
\* initially, and only the step of a ready event makes it true (no timer, no
\* HTTP request).
C10_ReadyIsLastWrite ==
    /\ [](isReady <=> lastConnEvent = "ready")
    /\ [][(isReady' /\ ~isReady) => event'.name = "ready"]_vars

\* after a disconnection the timer has run and a request has been refused,
\* and isReady is still false
C10_Witness ==
    /\ ~isReady
    /\ lastConnEvent = "disconnected"
    /\ initCalls > 1
    /\ Answered
    /\ out.status = 503

-----------------------------------------------------------------------------
(* Properties of the HTTP handlers and the connection state, under Spec *)

EventNames ==
    {"qr", "loading_screen", "ready", "authenticated", "auth_failure",
     "change_state", "disconnected"}

\* C11: no step of an HTTP handler (one that writes a response, or one that
\* moves a POST /send-message request on) changes isReady or qrCodeData; the
\* two change only in steps that deliver a client event.
C11_HandlersOnlyRead ==
    /\ [][(out' # NoOutput \/ \E r \in Reqs : req'[r].pc # req[r].pc) =>
             (isReady' = isReady /\ qrCodeData' = qrCodeData)]_vars
    /\ [][(isReady' # isReady \/ qrCodeData' # qrCodeData) =>
             (event'.name \in EventNames /\ out' = NoOutput)]_vars

\* GET /qr handed out a QR payload and the payload is still held
C11_Witness ==
    /\ out.route = "/qr"
    /\ qrCodeData \in QrPayloads
    /\ out.body = [qrCode |-> qrCodeData,
                   message |-> "Please scan this QR code with your WhatsApp mobile app"]

\* C13: every disconnected event adds a timer to those pending, whatever is
\* pending already; a pending timer goes only by running, which calls
\* client.initialize(); a ready event leaves the pending timers; and a
\* pending timer can run whatever isReady is.
C13_TimersNeverCoalesced ==
    /\ [][event'.name = "disconnected" => timers' = timers + 1]_vars
    /\ [][timers' < timers =>
             (timers' = timers - 1 /\ initCalls' = initCalls + 1)]_vars
    /\ [][event'.name = "ready" => timers' = timers]_vars
    /\ [](timers > 0 => ENABLED ReconnectTimer)

\* two reinitializations are pending and the client is ready
C13_Witness ==
    /\ timers >= 2
    /\ isReady
    /\ lastConnEvent = "ready"

QrBody(payload) ==
    [qrCode |-> payload,
     message |-> "Please scan this QR code with your WhatsApp mobile app"]

\* C14: GET /qr can be served in every state and answers 200; its body
\* carries qrCodeData with the scan instructions if qrCodeData is set, even
\* when isReady; otherwise the "already authenticated" message if isReady;
\* otherwise the "not available yet" message; and the payload it carries is
\* that of the most recent qr event that no ready event has followed.
C14_QrPriority ==
    /\ ENABLED GetQr
    /\ qrCodeData = lastQr
    /\ out.route = "/qr" =>
          /\ out.status = 200
          /\ out.body =
                IF qrCodeData # Null THEN QrBody(lastQr)
                ELSE IF isReady
                THEN [message |-> "Bot is already authenticated and ready"]
                ELSE [message |-> "QR code not available yet. Please wait..."]

\* GET /qr handed out the payload of a qr event while the client was ready
C14_Witness ==
    /\ out.route = "/qr"
    /\ isReady
    /\ out.body = QrBody("qr-2")

\* C15: GET /health can be served in every state and answers 200 with
\* status "healthy" and whatsappReady equal to isReady; GET /status can be
\* served in every state and answers 200 with status "ready" exactly when
\* isReady and with qrCode equal to qrCodeData.
C15_HealthAndStatus ==
    /\ ENABLED GetHealth
    /\ ENABLED GetStatus
    /\ out.route = "/health" =>
          /\ out.status = 200
          /\ out.body = [status |-> "healthy", whatsappReady |-> isReady]
    /\ out.route = "/status" =>
          /\ out.status = 200
          /\ out.body.status \in {"ready", "not_ready"}
          /\ out.body.status = "ready" <=> isReady
          /\ out.body.qrCode = qrCodeData

\* GET /health answered while the client was not ready, a QR payload was
\* held, a reinitialization was pending and a send was in flight
C15_Witness ==
    /\ out.route = "/health"
    /\ ~isReady
    /\ qrCodeData \in QrPayloads
    /\ timers > 0
    /\ \E r \in Reqs : InFlight(req[r])

\* C17 as stated: isReady and a set qrCodeData never hold together.
C17_NeverReadyWithQr ==
    ~(isReady /\ qrCodeData # Null)

\* C17 amended: a ready event leaves qrCodeData unset, and isReady with a set
\* qrCodeData comes to hold only by a qr event that is delivered while
\* isReady holds, that is after the last ready event with no auth_failure or
\* disconnected event since.
C17_ReadyWithQrOnlyByLateQr ==
    /\ [][event'.name = "ready" => (isReady' /\ qrCodeData' = Null)]_vars
    /\ [][(isReady' /\ qrCodeData' # Null /\ ~(isReady /\ qrCodeData # Null)) =>
             (event'.name = "qr" /\ isReady)]_vars
    /\ []((isReady /\ qrCodeData # Null) =>
             (lastConnEvent = "ready" /\ qrCodeData = lastQr))

\* GET /status reported "ready" together with a QR payload
C17_Witness ==
    /\ out.route = "/status"
    /\ isReady
    /\ out.body.status = "ready"
    /\ out.body.qrCode \in QrPayloads

\* the step makes a call of the client for request r
CallsClient(r) ==
    \E i \in 1..Len(req'[r].calls) :
        /\ i > Len(req[r].calls)
        /\ req'[r].calls[i].fn \in {"isRegisteredUser", "sendMessage"}

\* C18 as stated: isReady is true whenever isRegisteredUser or sendMessage
\* is called for a request, and no request during whose handling an
\* auth_failure or disconnected event came is answered 200.
C18_ReadyAcrossAwaits ==
    /\ [][\A r \in Reqs : CallsClient(r) => isReady]_vars
    /\ []((Answered /\ out.status = 200) => ~out.request.lostReady)

\* the address is 250, nine digits and @c.us
Canonical(a) ==
    /\ Len(a) = 17
    /\ SubSeq(a, 1, 3) = <<"2", "5", "0">>
    /\ \A i \in 4..12 : a[i] \in Digits
    /\ SubSeq(a, 13, 17) = <<"@", "c", ".", "u", "s">>

\* the calls of the client made for the request
ClientCalls(rq) == CallsOf(rq, "isRegisteredUser") \cup CallsOf(rq, "sendMessage")

AddressesCanonical(rq) ==
    /\ \A i \in ClientCalls(rq) : Canonical(rq.calls[i].arg)
    /\ \A i \in CallsOf(rq, "sendMessage") :
          /\ CallsOf(rq, "isRegisteredUser") # {}
          /\ \A j \in CallsOf(rq, "isRegisteredUser") :
                rq.calls[j].arg = rq.calls[i].arg

-----------------------------------------------------------------------------
(* Idempotence of formatPhoneNumber, under FormatSpec *)

\* C16: when formatPhoneNumber returns an address, formatPhoneNumber applied
\* to that address without its "@c.us" returns the same address.
C16_Idempotent ==
    /\ (Normalized /\ ~formatted.threw) => ENABLED Renormalize \/ renormalized # NotCalled
    /\ renormalized # NotCalled =>
          /\ ~renormalized.threw
          /\ renormalized.value = formatted.value

\* a local number was normalized, and its address normalized again
C16_Witness ==
    /\ renormalized # NotCalled
    /\ HasPrefix(DigitsOf(phoneNumber), <<"0">>)
    /\ ~renormalized.threw

-----------------------------------------------------------------------------
(* Properties of the reconnection, under TimerSpec *)

\* C12: every disconnected event is followed by a call of client.initialize()
\* once its timer expires; each disconnected event schedules exactly one
\* timer, so that initialize() has been called once at startup and once for
\* every disconnected event whose timer has run; and no step other than a
\* disconnected event schedules a timer, no step other than a timer callback
\* calls initialize().
C12_OneReinitPerDisconnect ==
    /\ [](initCalls + timers = disconnects + 1)
    /\ [][event'.name = "disconnected" => timers' = timers + 1]_vars
    /\ [][timers' > timers => event'.name = "disconnected"]_vars
    /\ [][initCalls' # initCalls =>
             /\ initCalls' = initCalls + 1
             /\ timers' = timers - 1
             /\ event' = NoEvent
             /\ out' = NoOutput]_vars
    /\ \A n \in 1..MaxDisconnects :
          (disconnects >= n) ~> (initCalls >= n + 1)

\* two disconnected events have come and both their timers have run
C12_Witness ==
    /\ disconnects = 2
    /\ timers = 0
    /\ initCalls = 3

-----------------------------------------------------------------------------
(* Properties of the life of a request, under SettleSpec *)

\* the request waits for a call of the client that has not settled
Waiting(rq) == rq.calls # <<>> /\ LastCall(rq).result = "pending"

\* C20: a request is answered once and never twice, and it is answered
\* whenever the calls of the client made for it settle; a request in flight
\* waits for a pending call and is answered by no step but the one in which
\* that call settles (there is no timeout); and while it waits, events are
\* delivered and other requests are served.
C20_OneResponse ==
    /\ [](\A r \in Reqs :
            /\ req[r].answered = IF req[r].pc = "done" THEN 1 ELSE 0
            /\ InFlight(req[r]) => Waiting(req[r]))
    /\ [][\A r \in Reqs :
            req'[r].answered # req[r].answered =>
                /\ out'.route = "/send-message"
                /\ out'.r = r
                /\ out'.request.answered = 1
                /\ \A i \in 1..Len(out'.request.calls) :
                      out'.request.calls[i].result # "pending"]_vars
    /\ [](\A r \in Reqs :
            InFlight(req[r]) =>
                /\ ENABLED OnReady
                /\ ENABLED GetHealth
                /\ \A q \in Reqs :
                      NextRequest(q) =>
                          ENABLED PostSendMessage(q, [phoneNumber |-> Str(LocalNumber),
                                                     message |-> Str(Text)]))
    /\ \A r \in Reqs : (req[r].pc # "idle") ~> (req[r].pc = "done")

\* the second request was answered while the first waits for sendMessage
C20_Witness ==
    /\ MaxReqs >= 2
    /\ req[1].pc = "awaitSendMessage"
    /\ out.route = "/send-message"
    /\ out.r = 2

=============================================================================
